---- MODULE Spec2Model ----
(***************************************************************************)
(* A model of turbine-llm: the provider registry (types.rs), the client    *)
(* facade (client.rs) and the three provider adapters (providers/*.rs).    *)
(*                                                                         *)
(* Strings are sequences of atoms.  A model string is a sequence of        *)
(* one-character atoms, so that split_once, to_lowercase, starts_with and  *)
(* trim are computed character by character.  Message contents, prompts    *)
(* and error payloads are sequences of atoms too, and format!("{} {}",a,b) *)
(* is a \o <<" ">> \o b.  Option<T> is a sequence of length at most one:   *)
(* None is <<>> and Some(x) is <<x>>.                                      *)
(***************************************************************************)
EXTENDS Naturals, Sequences, FiniteSets, TLC

VARIABLES
    env,             \* the process environment: env-var name -> EnvValues
    client,          \* Option<TurbineClient>: the facade built last, if any
    result,          \* the outcome of the operation that ran last
    resolved,        \* Option<[input, outcome]>: the application's last from_model_string call
    resolvedBefore,  \* Option<outcome>: its call before that one, when on the same input
    callerRequest,   \* Option<LLMRequest>: the request the application built and sends
    wire,            \* Option<wire body>: the JSON body of the last POST issued
    pc,              \* "idle" | "awaiting": position of the send_request invocation
    httpCalls,       \* the number of outbound HTTP calls issued so far
    prompted,        \* whether the last from_model call asked for a key on the console
    lineRead,        \* Option<line>: the line that call read from the console, if it read one
    calls            \* the send_request invocations of the application's tasks, in the
                     \* order they were made: each with its request, POST, response, outcome

vars == <<env, client, result, resolved, resolvedBefore, callerRequest, wire, pc, httpCalls,
          prompted, lineRead, calls>>

None == <<>>
Some(x) == <<x>>
IsSome(o) == Len(o) = 1
Unwrap(o) == o[1]

(***************************************************************************)
(* Bounds of the model.                                                    *)
(***************************************************************************)
MaxTail == 2      \* free characters appended to a model-string head
MaxMsgs == 3      \* messages in a request
MaxCalls == 1     \* HTTP calls in one behaviour
MaxInvocations == 2   \* send_request invocations of the application's tasks

(***************************************************************************)
(* Characters and strings.                                                 *)
(***************************************************************************)
UpperChars == <<"A","B","C","D","E","F","G","H","I","J","K","L","M",
                "N","O","P","Q","R","S","T","U","V","W","X","Y","Z">>
LowerChars == <<"a","b","c","d","e","f","g","h","i","j","k","l","m",
                "n","o","p","q","r","s","t","u","v","w","x","y","z">>

\* char::to_lowercase on ASCII: an upper-case letter maps to its lower-case
\* letter, every other character to itself.
UpperToLower ==
    [c \in {UpperChars[i] : i \in 1..Len(UpperChars)} |->
        LowerChars[CHOOSE i \in 1..Len(UpperChars) : UpperChars[i] = c]]

ToLowerChar(c) == IF c \in DOMAIN UpperToLower THEN UpperToLower[c] ELSE c

\* str::to_lowercase
to_lowercase(s) == [i \in 1..Len(s) |-> ToLowerChar(s[i])]

\* str::starts_with
starts_with(s, p) == Len(p) <= Len(s) /\ SubSeq(s, 1, Len(p)) = p

\* A split at the last '/' (str::rsplit_once) in place of the first.
split_once_AtLast(s) ==
    IF \E i \in 1..Len(s) : s[i] = "/"
    THEN LET i == CHOOSE k \in 1..Len(s) :
                     s[k] = "/" /\ \A j \in (k + 1)..Len(s) : s[j] # "/"
         IN  Some(<<SubSeq(s, 1, i - 1), SubSeq(s, i + 1, Len(s))>>)
    ELSE None

\* str::split_once('/'): None when s holds no '/', else Some(<<before, after>>)
\* of the first '/'.
split_once(s) ==
    IF \E i \in 1..Len(s) : s[i] = "/"
    THEN LET i == CHOOSE k \in 1..Len(s) :
                     s[k] = "/" /\ \A j \in 1..(k - 1) : s[j] # "/"
         IN  Some(<<SubSeq(s, 1, i - 1), SubSeq(s, i + 1, Len(s))>>)
    ELSE None

IsWhitespace(c) == c \in {" ", "\n", "\t", "\r"}

\* A line taken as it was read.
trim_Untrimmed(s) == s

\* str::trim: the longest substring with no leading and no trailing whitespace.
trim(s) ==
    IF \A i \in 1..Len(s) : IsWhitespace(s[i])
    THEN <<>>
    ELSE LET a == CHOOSE k \in 1..Len(s) :
                      ~IsWhitespace(s[k]) /\ \A j \in 1..(k - 1) : IsWhitespace(s[j])
             b == CHOOSE k \in 1..Len(s) :
                      ~IsWhitespace(s[k]) /\ \A j \in (k + 1)..Len(s) : IsWhitespace(s[j])
         IN  SubSeq(s, a, b)

\* The words the resolver compares against.
W_openai == <<"o","p","e","n","a","i">>
W_anthropic == <<"a","n","t","h","r","o","p","i","c">>
W_google == <<"g","o","o","g","l","e">>
W_gemini == <<"g","e","m","i","n","i">>
W_groq == <<"g","r","o","q">>
W_gpt == <<"g","p","t">>
W_claude == <<"c","l","a","u","d","e">>
W_llama == <<"l","l","a","m","a">>
W_mixtral == <<"m","i","x","t","r","a","l">>

(***************************************************************************)
(* types.rs: Provider.                                                     *)
(***************************************************************************)
Providers == {"OpenAI", "Anthropic", "Gemini", "Groq"}

env_var(p) ==
    CASE p = "OpenAI" -> "OPENAI_API_KEY"
      [] p = "Anthropic" -> "ANTHROPIC_API_KEY"
      [] p = "Gemini" -> "GEMINI_API_KEY"
      [] p = "Groq" -> "GROQ_API_KEY"

base_url(p) ==
    CASE p = "OpenAI" -> "https://api.openai.com/v1"
      [] p = "Anthropic" -> "https://api.anthropic.com/v1"
      [] p = "Gemini" -> "https://generativelanguage.googleapis.com/v1beta"
      [] p = "Groq" -> "https://api.groq.com/openai/v1"

EnvVarNames == {env_var(p) : p \in Providers}

\* Result<(Provider, String), TurbineError>
ResolveOk(p, name) ==
    [ok |-> TRUE, provider |-> p, model |-> name, err |-> "", payload |-> <<>>]
ResolveErr(kind, msg) ==
    [ok |-> FALSE, provider |-> "", model |-> <<>>, err |-> kind, payload |-> msg]

\* The explicit-prefix branch: `prefix` and `model_name` are the two halves
\* split_once returned.
from_prefix(prefix, model_name) ==
    LET lower == to_lowercase(prefix)
    IN  CASE lower = W_openai -> ResolveOk("OpenAI", model_name)
          [] lower = W_anthropic -> ResolveOk("Anthropic", model_name)
          [] lower = W_google \/ lower = W_gemini -> ResolveOk("Gemini", model_name)
          [] lower = W_groq -> ResolveOk("Groq", model_name)
          [] OTHER -> ResolveErr("InvalidResponse",
                          <<"Unknown provider prefix: ">> \o prefix
                          \o <<". Supported: openai, anthropic, google, gemini, groq">>)

\* An inference that returns the lower-cased copy it matched on as the model
\* name.
infer_provider_Lowercased(model) ==
    LET model_lower == to_lowercase(model)
    IN  IF starts_with(model_lower, W_gpt) THEN ResolveOk("OpenAI", model_lower)
        ELSE IF starts_with(model_lower, W_claude) THEN ResolveOk("Anthropic", model_lower)
        ELSE IF starts_with(model_lower, W_gemini) THEN ResolveOk("Gemini", model_lower)
        ELSE IF starts_with(model_lower, W_llama) \/ starts_with(model_lower, W_mixtral)
             THEN ResolveOk("Groq", model_lower)
        ELSE ResolveErr("InvalidResponse",
                 <<"Cannot infer provider from model name: ">> \o model
                 \o <<". Use format 'provider/model' (e.g., 'openai/gpt-4')">>)

\* The inference branch, for a string without '/'.
infer_provider(model) ==
    LET model_lower == to_lowercase(model)
    IN  IF starts_with(model_lower, W_gpt) THEN ResolveOk("OpenAI", model)
        ELSE IF starts_with(model_lower, W_claude) THEN ResolveOk("Anthropic", model)
        ELSE IF starts_with(model_lower, W_gemini) THEN ResolveOk("Gemini", model)
        ELSE IF starts_with(model_lower, W_llama) \/ starts_with(model_lower, W_mixtral)
             THEN ResolveOk("Groq", model)
        ELSE ResolveErr("InvalidResponse",
                 <<"Cannot infer provider from model name: ">> \o model
                 \o <<". Use format 'provider/model' (e.g., 'openai/gpt-4')">>)

\* A resolver that looks at the environment: a string it cannot resolve goes
\* to OpenAI when an OpenAI key is set.
from_model_string_CredentialAware(model) ==
    LET split == split_once(model)
        plain == IF IsSome(split)
                 THEN from_prefix(Unwrap(split)[1], Unwrap(split)[2])
                 ELSE infer_provider(model)
    IN  IF ~plain.ok /\ env["OPENAI_API_KEY"].present
        THEN ResolveOk("OpenAI", model)
        ELSE plain

\* Provider::from_model_string
from_model_string(model) ==
    LET split == split_once(model)
    IN  IF IsSome(split)
        THEN from_prefix(Unwrap(split)[1], Unwrap(split)[2])
        ELSE infer_provider(model)

(***************************************************************************)
(* The model strings the operations are called with: a head followed by    *)
(* at most MaxTail free characters, plus the strings the documentation     *)
(* names.  '/' in the tail gives the explicit-prefix form (also with a     *)
(* second '/'), "X" and the mixed-case heads show what is lower-cased and  *)
(* what is kept.                                                           *)
(***************************************************************************)
RECURSIVE SeqsUpTo(_, _)
SeqsUpTo(S, n) ==
    IF n = 0 THEN {<<>>}
    ELSE LET shorter == SeqsUpTo(S, n - 1)
         IN  shorter \cup {Append(s, x) : s \in shorter, x \in S}

TailChars == {"/", "X"}

Heads ==
    { <<>>,
      W_gpt, <<"G","P","T">>, <<"g","p">>, <<"c","h","a","t","g","p","t">>,
      <<" ","g","p","t">>,
      W_claude, <<"C","l","a","u","d","e">>,
      W_gemini, <<"G","E","M","I","N","I">>,
      W_llama, <<"L","l","a","m","a">>,
      W_mixtral, <<"M","I","X","T","R","A","L">>,
      W_openai, <<"O","p","e","n","A","I">>,
      W_anthropic, <<"A","N","T","H","R","O","P","I","C">>,
      W_google, <<"G","o","o","g","l","e">>,
      W_groq, <<"G","R","O","Q">>,
      <<"a","z","u","r","e">>, <<"x","y","z","1","2","3">> }

S_gpt_4o_mini == W_gpt \o <<"-","4","o","-","m","i","n","i">>

DocStrings ==
    { W_google \o <<"/">> \o W_gemini \o <<"-","f","l","a","s","h">>,
      W_claude \o <<"-","3","-","5","-","s","o","n","n","e","t">>,
      S_gpt_4o_mini,
      <<"u","n","k","n","o","w","n","v","e","n","d","o","r","/","f","o","o">> }

ModelStrings == {h \o t : h \in Heads, t \in SeqsUpTo(TailChars, MaxTail)} \cup DocStrings

(***************************************************************************)
(* The process environment.  std::env::var(name) is Ok(value) when the     *)
(* variable is set to valid Unicode, Err(NotPresent) when it is not set    *)
(* and Err(NotUnicode) when it is set to something else.                   *)
(***************************************************************************)
Absent == [present |-> FALSE, unicode |-> TRUE, value |-> <<>>]
NotUnicode == [present |-> TRUE, unicode |-> FALSE, value |-> <<>>]
SetTo(v) == [present |-> TRUE, unicode |-> TRUE, value |-> v]

Keys == {<<"k","1">>, <<"k","2">>}
EnvValues == {Absent, NotUnicode} \cup {SetTo(k) : k \in Keys}

\* std::env::var on the environment e
env_read(e, name) ==
    IF ~e[name].present THEN [ok |-> FALSE, value |-> <<>>, err |-> "NotPresent"]
    ELSE IF ~e[name].unicode THEN [ok |-> FALSE, value |-> <<>>, err |-> "NotUnicode"]
    ELSE [ok |-> TRUE, value |-> e[name].value, err |-> ""]

(***************************************************************************)
(* Outcomes.  `result` holds the Result the last operation returned:       *)
(* Ok(..) or Err(TurbineError::<err>(<payload>)).                           *)
(***************************************************************************)
Ok(op, v) ==
    [op |-> op, arg |-> None, ok |-> TRUE, err |-> "", payload |-> <<>>, value |-> v]
Err(op, kind, msg) ==
    [op |-> op, arg |-> None, ok |-> FALSE, err |-> kind, payload |-> msg, value |-> None]
NoResult ==
    [op |-> "", arg |-> None, ok |-> TRUE, err |-> "", payload |-> <<>>, value |-> None]
\* The outcome r of an operation called with the argument a
Of(a, r) == [r EXCEPT !.arg = Some(a)]

sendVars == <<callerRequest, wire, pc, httpCalls, calls>>
resolverVars == <<resolved, resolvedBefore>>

(***************************************************************************)
(* A call of Provider::from_model_string by the application.               *)
(***************************************************************************)
RecordResolve(model, outcome) ==
    /\ resolved' = Some([input |-> model, outcome |-> outcome])
    /\ resolvedBefore' = IF IsSome(resolved) /\ Unwrap(resolved).input = model
                         THEN Some(Unwrap(resolved).outcome)
                         ELSE None

Resolve(model) ==
    \E outcome \in {from_model_string(model)} :
        /\ RecordResolve(model, outcome)
        /\ result' = Of(model, IF outcome.ok
                                THEN Ok("from_model_string", None)
                                ELSE Err("from_model_string", outcome.err, outcome.payload))
        /\ UNCHANGED <<env, client, sendVars, prompted, lineRead>>

(***************************************************************************)
(* The adapters' constructors.  `?` on std::env::var turns a VarError into *)
(* TurbineError::EnvError (error.rs, #[from] std::env::VarError); the      *)
(* payload is the VarError, which does not name the variable.              *)
(***************************************************************************)
Adapter(p, key) == [provider |-> p, api_key |-> key, base_url |-> base_url(p)]
AdapterOk(a) == [ok |-> TRUE, adapter |-> Some(a), err |-> "", payload |-> <<>>]
AdapterErr(kind, msg) == [ok |-> FALSE, adapter |-> None, err |-> kind, payload |-> msg]

\* OpenAIProvider::new, on the environment e
OpenAIProvider_new(e) ==
    LET api_key == env_read(e, env_var("OpenAI"))
    IN  IF api_key.ok THEN AdapterOk(Adapter("OpenAI", api_key.value))
        ELSE AdapterErr("EnvError", <<api_key.err>>)

\* AnthropicProvider::new
AnthropicProvider_new(e) ==
    LET api_key == env_read(e, env_var("Anthropic"))
    IN  IF api_key.ok THEN AdapterOk(Adapter("Anthropic", api_key.value))
        ELSE AdapterErr("EnvError", <<api_key.err>>)

\* GeminiProvider::new
GeminiProvider_new(e) ==
    LET api_key == env_read(e, env_var("Gemini"))
    IN  IF api_key.ok THEN AdapterOk(Adapter("Gemini", api_key.value))
        ELSE AdapterErr("EnvError", <<api_key.err>>)

\* GroqProvider::new (providers/groq.rs): the default constructor "reads the
\* credential from the environment; fails with CredentialNotFound(env_var_name)
\* if absent or unreadable".
GroqProvider_new(e) ==
    LET api_key == env_read(e, env_var("Groq"))
    IN  IF api_key.ok THEN AdapterOk(Adapter("Groq", api_key.value))
        ELSE AdapterErr("ApiKeyNotFound", <<env_var("Groq")>>)

\* The match on provider in TurbineClient::new and TurbineClient::from_model
ProviderNew(p, e) ==
    CASE p = "OpenAI" -> OpenAIProvider_new(e)
      [] p = "Anthropic" -> AnthropicProvider_new(e)
      [] p = "Gemini" -> GeminiProvider_new(e)
      [] p = "Groq" -> GroqProvider_new(e)

TurbineClient(adapter, default_model) ==
    [provider |-> adapter, default_model |-> default_model]

(***************************************************************************)
(* TurbineClient::new(provider)                                            *)
(***************************************************************************)
ClientNew(p) ==
    LET provider_impl == ProviderNew(p, env)
    IN  /\ IF provider_impl.ok
           THEN /\ client' = Some(TurbineClient(Unwrap(provider_impl.adapter), None))
                /\ result' = Of(p, Ok("new", None))
           ELSE /\ client' = client
                /\ result' = Of(p, Err("new", provider_impl.err, provider_impl.payload))
        /\ UNCHANGED <<env, resolverVars, sendVars, prompted, lineRead>>

\* AnthropicProvider::new_with_key
AnthropicProvider_new_with_key(api_key) == Adapter("Anthropic", api_key)

\* new_with_key of the other adapters: the "explicit constructor: takes the
\* credential directly".
OpenAIProvider_new_with_key(api_key) == Adapter("OpenAI", api_key)
GeminiProvider_new_with_key(api_key) == Adapter("Gemini", api_key)
GroqProvider_new_with_key(api_key) == Adapter("Groq", api_key)

\* The match on provider in TurbineClient::new_with_key
ProviderNewWithKey(p, api_key) ==
    CASE p = "OpenAI" -> OpenAIProvider_new_with_key(api_key)
      [] p = "Anthropic" -> AnthropicProvider_new_with_key(api_key)
      [] p = "Gemini" -> GeminiProvider_new_with_key(api_key)
      [] p = "Groq" -> GroqProvider_new_with_key(api_key)

(***************************************************************************)
(* TurbineClient::new_with_key(provider, api_key)                          *)
(***************************************************************************)
ClientNewWithKey(p, api_key) ==
    /\ client' = Some(TurbineClient(ProviderNewWithKey(p, api_key), None))
    /\ result' = Of(p, Ok("new_with_key", None))
    /\ UNCHANGED <<env, resolverVars, sendVars, prompted, lineRead>>

(***************************************************************************)
(* TurbineClient::from_model(model_str); `line` is what read_line reads    *)
(* from the console when the key is asked for.                             *)
(***************************************************************************)
Lines ==
    { <<>>, <<"\n">>, <<" ","\n">>, <<"k","1","\n">>, <<" ","k","2"," ","\r","\n">> }

\* A from_model that constructs the adapter from the environment as it was
\* before the key was installed.
FromModel_ConstructsFirst(model_str, line) ==
    \E parsed \in {from_model_string(model_str)} :
    LET name == env_var(parsed.provider)
        missing == ~env_read(env, name).ok
        api_key == trim(line)
        provider_impl == ProviderNew(parsed.provider, env)
    IN  /\ UNCHANGED <<resolverVars, sendVars>>
        /\ IF ~parsed.ok
           THEN /\ result' = Of(model_str, Err("from_model", parsed.err, parsed.payload))
                /\ prompted' = FALSE
                /\ lineRead' = None
                /\ UNCHANGED <<env, client>>
           ELSE /\ prompted' = missing
                /\ lineRead' = IF missing THEN Some(line) ELSE None
                /\ IF missing /\ api_key = <<>>
                   THEN /\ result' = Of(model_str, Err("from_model", "ApiKeyNotFound", <<name>>))
                        /\ UNCHANGED <<env, client>>
                   ELSE /\ env' = IF missing THEN [env EXCEPT ![name] = SetTo(api_key)] ELSE env
                        /\ IF provider_impl.ok
                           THEN /\ client' = Some(TurbineClient(
                                        Unwrap(provider_impl.adapter), Some(parsed.model)))
                                /\ result' = Of(model_str, Ok("from_model", None))
                           ELSE /\ client' = client
                                /\ result' = Of(model_str, Err("from_model",
                                                 provider_impl.err, provider_impl.payload))

FromModel(model_str, line) ==
    \E parsed \in {from_model_string(model_str)} :
    LET name == env_var(parsed.provider)
        missing == ~env_read(env, name).ok
        api_key == trim(line)
        env2 == IF missing THEN [env EXCEPT ![name] = SetTo(api_key)] ELSE env
        provider_impl == ProviderNew(parsed.provider, env2)
    IN  /\ UNCHANGED <<resolverVars, sendVars>>
        /\ IF ~parsed.ok
           THEN /\ result' = Of(model_str, Err("from_model", parsed.err, parsed.payload))
                /\ prompted' = FALSE
                /\ lineRead' = None
                /\ UNCHANGED <<env, client>>
           ELSE /\ prompted' = missing
                /\ lineRead' = IF missing THEN Some(line) ELSE None
                /\ IF missing /\ api_key = <<>>
                   THEN /\ result' = Of(model_str, Err("from_model", "ApiKeyNotFound", <<name>>))
                        /\ UNCHANGED <<env, client>>
                   ELSE /\ env' = env2
                        /\ IF provider_impl.ok
                           THEN /\ client' = Some(TurbineClient(
                                        Unwrap(provider_impl.adapter), Some(parsed.model)))
                                /\ result' = Of(model_str, Ok("from_model", None))
                           ELSE /\ client' = client
                                /\ result' = Of(model_str, Err("from_model",
                                                 provider_impl.err, provider_impl.payload))

(***************************************************************************)
(* models.rs: Message and LLMRequest, and the builder the application      *)
(* makes its request with.                                                 *)
(***************************************************************************)
Message(role, content) == [role |-> role, content |-> content]
Message_user(content) == Message("user", content)
Message_assistant(content) == Message("assistant", content)
Message_system(content) == Message("system", content)

\* LLMRequest::new
LLMRequest_new(model) ==
    [ model |-> model,
      messages |-> <<>>,
      system_prompt |-> None,
      max_tokens |-> Some(1024),
      temperature |-> None,
      top_p |-> None,
      output_format |-> "Text" ]

with_message(req, message) == [req EXCEPT !.messages = Append(@, message)]
with_messages(req, messages) == [req EXCEPT !.messages = messages]
with_system_prompt(req, prompt) == [req EXCEPT !.system_prompt = Some(prompt)]
with_max_tokens(req, n) == [req EXCEPT !.max_tokens = Some(n)]
with_temperature(req, x) == [req EXCEPT !.temperature = Some(x)]
with_top_p(req, x) == [req EXCEPT !.top_p = Some(x)]
with_output_format(req, format) == [req EXCEPT !.output_format = format]

\* What the application puts into its requests.
Roles == {"user", "assistant", "system", "tool"}
Contents == {<<"a">>, <<"b">>}
Messages == {Message(r, c) : r \in Roles, c \in Contents}
Prompts == {<<>>, <<"Be brief.">>}
RequestModels == {S_gpt_4o_mini}
OutputFormats == {"Text", "Json"}

\* The application builds its request before it sends it.
Building == pc = "idle" /\ httpCalls = 0 /\ result.op # "send_request"

RequestNew(model) ==
    /\ Building
    /\ callerRequest = None
    /\ callerRequest' = Some(LLMRequest_new(model))
    /\ UNCHANGED <<env, client, result, resolverVars, wire, pc, httpCalls, prompted, lineRead, calls>>

BuildStep(next) ==
    /\ Building
    /\ IsSome(callerRequest)
    /\ callerRequest' = Some(next)
    /\ UNCHANGED <<env, client, result, resolverVars, wire, pc, httpCalls, prompted, lineRead, calls>>

WithMessage(message) ==
    /\ IsSome(callerRequest) /\ Len(Unwrap(callerRequest).messages) < MaxMsgs
    /\ BuildStep(with_message(Unwrap(callerRequest), message))

WithSystemPrompt(prompt) ==
    /\ IsSome(callerRequest)
    /\ BuildStep(with_system_prompt(Unwrap(callerRequest), prompt))

WithOutputFormat(format) ==
    /\ IsSome(callerRequest)
    /\ BuildStep(with_output_format(Unwrap(callerRequest), format))

\* The generation parameters the application sets.  A temperature and a
\* top_p are f32 values, which the adapters copy and never compute with.
TokenLimits == {100}
Temperatures == {"0.7"}
TopPs == {"0.9"}

WithMaxTokens(n) ==
    /\ IsSome(callerRequest)
    /\ BuildStep(with_max_tokens(Unwrap(callerRequest), n))

WithTemperature(x) ==
    /\ IsSome(callerRequest)
    /\ BuildStep(with_temperature(Unwrap(callerRequest), x))

WithTopP(x) ==
    /\ IsSome(callerRequest)
    /\ BuildStep(with_top_p(Unwrap(callerRequest), x))

\* max_tokens is a public field: the application may clear the limit that
\* LLMRequest::new set.
WithoutMaxTokens ==
    /\ IsSome(callerRequest)
    /\ IsSome(Unwrap(callerRequest).max_tokens)
    /\ BuildStep([Unwrap(callerRequest) EXCEPT !.max_tokens = None])

(***************************************************************************)
(* The wire.  A POST is its URL, its headers and its JSON body; a body is  *)
(* a function from the names of the fields that are serialized to their    *)
(* values, so a field skipped by skip_serializing_if is not in its DOMAIN. *)
(***************************************************************************)
Post(url, headers, body) == [url |-> url, headers |-> headers, body |-> body]
BuildOk(post) == [ok |-> TRUE, post |-> Some(post), err |-> "", payload |-> <<>>]
BuildErr(kind, msg) == [ok |-> FALSE, post |-> None, err |-> kind, payload |-> msg]

(***************************************************************************)
(* providers/openai.rs: OpenAIProvider::send_request up to the POST.       *)
(***************************************************************************)
OpenAIJsonInstruction == <<"You must respond with valid JSON only.">>

\* A placement that merges the prompt into a system message that leads the list.
OpenAIWithSystemPrompt_Merging(request) ==
    IF IsSome(request.system_prompt)
    THEN IF request.messages # <<>> /\ request.messages[1].role = "system"
         THEN [request.messages EXCEPT
                   ![1].content = Unwrap(request.system_prompt) \o <<" ">> \o @]
         ELSE <<Message_system(Unwrap(request.system_prompt))>> \o request.messages
    ELSE request.messages

\* messages.insert(0, Message::system(system_prompt)) when a prompt is given
OpenAIWithSystemPrompt(request) ==
    IF IsSome(request.system_prompt)
    THEN <<Message_system(Unwrap(request.system_prompt))>> \o request.messages
    ELSE request.messages

\* The JSON-mode step on the message list
OpenAIJsonMode(messages) ==
    IF messages # <<>>
    THEN IF messages[1].role = "system"
         THEN [messages EXCEPT ![1].content = @ \o <<" ">> \o OpenAIJsonInstruction]
         ELSE messages
    ELSE <<Message_system(OpenAIJsonInstruction)>>

OpenAIMessages(request) ==
    LET messages == OpenAIWithSystemPrompt(request)
    IN  IF request.output_format = "Json" THEN OpenAIJsonMode(messages) ELSE messages

\* A body that names its response format in every mode: "text" for a Text
\* request.
OpenAIRequestBody_FormatAlways(request) ==
    [ model |-> request.model,
      messages |-> OpenAIMessages(request),
      max_tokens |-> request.max_tokens,
      temperature |-> request.temperature,
      top_p |-> request.top_p,
      response_format |-> Some([type |-> IF request.output_format = "Json"
                                         THEN "json_object"
                                         ELSE "text"]) ]

\* OpenAIRequestBody, before serialization
OpenAIRequestBody(request) ==
    [ model |-> request.model,
      messages |-> OpenAIMessages(request),
      max_tokens |-> request.max_tokens,
      temperature |-> request.temperature,
      top_p |-> request.top_p,
      response_format |-> IF request.output_format = "Json"
                          THEN Some([type |-> "json_object"])
                          ELSE None ]

\* #[derive(Serialize)] of OpenAIRequestBody: the Option fields are skipped
\* when None.
OpenAISerialize(body) ==
    LET optional == {"max_tokens", "temperature", "top_p", "response_format"}
        present == {"model", "messages"} \cup {f \in optional : IsSome(body[f])}
    IN  [f \in present |-> IF f \in optional THEN Unwrap(body[f]) ELSE body[f]]

OpenAIBuild(self, request) ==
    BuildOk(Post(<<self.base_url, "/chat/completions">>,
                 [Authorization |-> <<"Bearer ">> \o self.api_key,
                  ContentType |-> "application/json"],
                 OpenAISerialize(OpenAIRequestBody(request))))

\* providers/groq.rs: Groq "shares OpenAI's wire format with a different base
\* URL/credential".
GroqBuild(self, request) == OpenAIBuild(self, request)

(***************************************************************************)
(* providers/anthropic.rs: AnthropicProvider::send_request up to the POST. *)
(***************************************************************************)
AnthropicJsonInstruction ==
    <<"You must respond with valid JSON only. Start your response with an opening brace {.">>

MissingMessages == <<"At least one user or assistant message is required">>

\* A filter that keeps the user messages only.
AnthropicMessages_OnlyUser(request) ==
    SelectSeq(request.messages, LAMBDA m : m.role = "user")

\* request.messages.iter().filter(|m| m.role != "system").cloned().collect()
AnthropicMessages(request) == SelectSeq(request.messages, LAMBDA m : m.role # "system")

\* A JSON mode whose instruction replaces the caller's prompt.
AnthropicSystem_ReplacesPrompt(request) ==
    IF request.output_format = "Json"
    THEN Some(AnthropicJsonInstruction)
    ELSE request.system_prompt

\* The system prompt as sent
AnthropicSystem(request) ==
    IF request.output_format = "Json"
    THEN IF IsSome(request.system_prompt)
         THEN Some(Unwrap(request.system_prompt) \o <<" ">> \o AnthropicJsonInstruction)
         ELSE Some(AnthropicJsonInstruction)
    ELSE request.system_prompt

\* AnthropicRequestBody, before serialization
AnthropicRequestBody(request) ==
    [ model |-> request.model,
      messages |-> AnthropicMessages(request),
      max_tokens |-> IF IsSome(request.max_tokens) THEN Unwrap(request.max_tokens) ELSE 1024,
      system |-> AnthropicSystem(request),
      temperature |-> request.temperature,
      top_p |-> request.top_p ]

\* #[derive(Serialize)] of AnthropicRequestBody
AnthropicSerialize(body) ==
    LET optional == {"system", "temperature", "top_p"}
        present == {"model", "messages", "max_tokens"} \cup {f \in optional : IsSome(body[f])}
    IN  [f \in present |-> IF f \in optional THEN Unwrap(body[f]) ELSE body[f]]

AnthropicBuild(self, request) ==
    IF AnthropicMessages(request) = <<>>
    THEN BuildErr("MissingField", MissingMessages)
    ELSE BuildOk(Post(<<self.base_url, "/messages">>,
                      [x_api_key |-> self.api_key,
                       anthropic_version |-> "2023-06-01",
                       ContentType |-> "application/json"],
                      AnthropicSerialize(AnthropicRequestBody(request))))

(***************************************************************************)
(* providers/gemini.rs: GeminiProvider::send_request up to the POST.       *)
(***************************************************************************)
Part(text) == [text |-> text]
Content(role, text) == [role |-> role, parts |-> <<Part(text)>>]

\* A loop that passes every role but assistant through as it is.
RECURSIVE GeminiContents_RoleKept(_)
GeminiContents_RoleKept(messages) ==
    IF messages = <<>> THEN <<>>
    ELSE LET message == Head(messages)
             rest == GeminiContents_RoleKept(Tail(messages))
         IN  IF message.role = "system" THEN rest
             ELSE <<Content(IF message.role = "assistant" THEN "model" ELSE message.role,
                            message.content)>> \o rest

\* The loop over request.messages
RECURSIVE GeminiContents(_)
GeminiContents(messages) ==
    IF messages = <<>> THEN <<>>
    ELSE LET message == Head(messages)
             rest == GeminiContents(Tail(messages))
         IN  IF message.role = "system" THEN rest
             ELSE <<Content(IF message.role = "assistant" THEN "model" ELSE "user",
                            message.content)>> \o rest

\* A GenerationConfig that falls back to a limit of 1024 tokens when the
\* request has none, as the Anthropic adapter does.
GeminiGenerationConfig_DefaultsMaxTokens(request) ==
    LET config == [ temperature |-> request.temperature,
                    topP |-> request.top_p,
                    maxOutputTokens |-> IF IsSome(request.max_tokens)
                                        THEN request.max_tokens
                                        ELSE Some(1024),
                    responseMimeType |-> IF request.output_format = "Json"
                                         THEN Some("application/json")
                                         ELSE None ]
    IN  [f \in {g \in DOMAIN config : IsSome(config[g])} |-> Unwrap(config[f])]

\* GenerationConfig and its serialization
GeminiGenerationConfig(request) ==
    LET config == [ temperature |-> request.temperature,
                    topP |-> request.top_p,
                    maxOutputTokens |-> request.max_tokens,
                    responseMimeType |-> IF request.output_format = "Json"
                                         THEN Some("application/json")
                                         ELSE None ]
    IN  [f \in {g \in DOMAIN config : IsSome(config[g])} |-> Unwrap(config[f])]

\* A body whose system instruction also carries, in Json mode, the JSON
\* instruction, and carries it alone when there is no system_prompt, as the
\* Anthropic adapter's system field does.
GeminiRequestBody_JsonInstruction(request) ==
    LET json == request.output_format = "Json"
        system_instruction ==
            IF IsSome(request.system_prompt)
            THEN Some([parts |-> <<Part(IF json
                                        THEN Unwrap(request.system_prompt) \o AnthropicJsonInstruction
                                        ELSE Unwrap(request.system_prompt))>>])
            ELSE IF json THEN Some([parts |-> <<Part(AnthropicJsonInstruction)>>])
            ELSE None
        present == {"contents", "generationConfig"}
                   \cup (IF IsSome(system_instruction) THEN {"systemInstruction"} ELSE {})
    IN  [f \in present |->
            CASE f = "contents" -> GeminiContents(request.messages)
              [] f = "generationConfig" -> GeminiGenerationConfig(request)
              [] f = "systemInstruction" -> Unwrap(system_instruction)]

\* GeminiRequestBody and its serialization
GeminiRequestBody(request) ==
    LET system_instruction ==
            IF IsSome(request.system_prompt)
            THEN Some([parts |-> <<Part(Unwrap(request.system_prompt))>>])
            ELSE None
        present == {"contents", "generationConfig"}
                   \cup (IF IsSome(system_instruction) THEN {"systemInstruction"} ELSE {})
    IN  [f \in present |->
            CASE f = "contents" -> GeminiContents(request.messages)
              [] f = "generationConfig" -> GeminiGenerationConfig(request)
              [] f = "systemInstruction" -> Unwrap(system_instruction)]

\* A send whose emptiness check looks at the request's messages, not at the
\* contents left after the system messages are dropped.
GeminiBuild_ChecksUnfiltered(self, request) ==
    IF request.messages = <<>>
    THEN BuildErr("MissingField", MissingMessages)
    ELSE BuildOk(Post(<<self.base_url, "/models/">> \o request.model \o <<":generateContent">>,
                      [x_goog_api_key |-> self.api_key,
                       ContentType |-> "application/json"],
                      GeminiRequestBody(request)))

GeminiBuild(self, request) ==
    IF GeminiContents(request.messages) = <<>>
    THEN BuildErr("MissingField", MissingMessages)
    ELSE BuildOk(Post(<<self.base_url, "/models/">> \o request.model \o <<":generateContent">>,
                      [x_goog_api_key |-> self.api_key,
                       ContentType |-> "application/json"],
                      GeminiRequestBody(request)))

\* The dynamic dispatch of LLMProviderTrait::send_request
Build(self, request) ==
    CASE self.provider = "OpenAI" -> OpenAIBuild(self, request)
      [] self.provider = "Anthropic" -> AnthropicBuild(self, request)
      [] self.provider = "Gemini" -> GeminiBuild(self, request)
      [] self.provider = "Groq" -> GroqBuild(self, request)

(***************************************************************************)
(* The HTTP response.  The transport either fails or delivers a status,    *)
(* and then the body or a failure to read it; a body is its text and, when *)
(* the text is JSON, the value it parses to.  Deserializing into a         *)
(* vendor's response type succeeds when the value has that vendor's shape. *)
(***************************************************************************)
TransportError ==
    [transport_ok |-> FALSE, success |-> FALSE, body_ok |-> FALSE, text |-> <<>>, json |-> None]
Delivered(success, text, json) ==
    [transport_ok |-> TRUE, success |-> success, body_ok |-> TRUE, text |-> text, json |-> json]
\* The status arrives and the connection breaks before the body is read.
BodyLost(success) ==
    [transport_ok |-> TRUE, success |-> success, body_ok |-> FALSE, text |-> <<>>, json |-> None]

OpenAIJson(choices, prompt_tokens, completion_tokens) ==
    [ shape |-> "openai", items |-> choices,
      tokens_in |-> prompt_tokens, tokens_out |-> completion_tokens ]
AnthropicJson(content, input_tokens, output_tokens) ==
    [ shape |-> "anthropic", items |-> content,
      tokens_in |-> input_tokens, tokens_out |-> output_tokens ]
GeminiJson(candidates, promptTokenCount, candidatesTokenCount) ==
    [ shape |-> "gemini", items |-> candidates,
      tokens_in |-> promptTokenCount, tokens_out |-> candidatesTokenCount ]

\* choices / content blocks: each item is its text; candidates: each item is
\* the sequence of the texts of its parts.
JsonBodies ==
    { OpenAIJson(<<>>, 12, 3), OpenAIJson(<<"Hi Alice">>, 12, 3),
      OpenAIJson(<<"Hi Alice", "Bye">>, 3, 12),
      AnthropicJson(<<>>, 12, 3), AnthropicJson(<<"Hi Alice">>, 12, 3),
      AnthropicJson(<<"Hi Alice", "Bye">>, 3, 12),
      GeminiJson(<<>>, 12, 3), GeminiJson(<<<<>>>>, 12, 3),
      GeminiJson(<<<<"Hi Alice">>>>, 12, 3),
      GeminiJson(<<<<"Hi Alice", "Bye">>, <<"Ciao">>>>, 3, 12),
      GeminiJson(<<<<>>, <<"Ciao">>>>, 3, 12) }

HttpResponses ==
    {TransportError}
    \cup {BodyLost(s) : s \in BOOLEAN}
    \cup {Delivered(s, <<"oops">>, None) : s \in BOOLEAN}
    \cup {Delivered(s, <<ToString(j)>>, Some(j)) : s \in BOOLEAN, j \in JsonBodies}

\* One response of each kind.
SomeResponses ==
    { TransportError, Delivered(FALSE, <<"oops">>, None), Delivered(TRUE, <<"oops">>, None) }
    \cup { Delivered(TRUE, <<ToString(j)>>, Some(j)) :
               j \in { OpenAIJson(<<"Hi Alice">>, 12, 3), AnthropicJson(<<"Hi Alice">>, 12, 3),
                       GeminiJson(<<<<"Hi Alice">>>>, 12, 3) } }

LLMResponse_new(content, input_tokens, output_tokens) ==
    [content |-> content, usage |-> [input_tokens |-> input_tokens,
                                     output_tokens |-> output_tokens]]

\* An adapter that decodes the body before it looks at the status.
Received_DecodesFirst(response, shape) ==
    IF ~response.transport_ok THEN Err("send_request", "HttpError", <<"send">>)
    ELSE IF ~response.body_ok THEN Err("send_request", "HttpError", <<"body">>)
    ELSE IF response.json = None \/ Unwrap(response.json).shape # shape
         THEN Err("send_request", "HttpError", <<"decode">>)
    ELSE IF ~response.success THEN Err("send_request", "ApiError", response.text)
    ELSE NoResult

\* The part of send_request all three adapters share: `.send().await?`, the
\* status check with `response.text().await?`, and `response.json().await?`.
\* A reqwest::Error, also the one of a body that cannot be read or does not
\* decode, becomes TurbineError::HttpError.
Received(response, shape) ==
    IF ~response.transport_ok THEN Err("send_request", "HttpError", <<"send">>)
    ELSE IF ~response.body_ok THEN Err("send_request", "HttpError", <<"body">>)
    ELSE IF ~response.success THEN Err("send_request", "ApiError", response.text)
    ELSE IF response.json = None \/ Unwrap(response.json).shape # shape
         THEN Err("send_request", "HttpError", <<"decode">>)
    ELSE NoResult

\* An adapter that takes the last choice.
OpenAIParse_LastChoice(response) ==
    LET early == Received(response, "openai")
        openai_response == Unwrap(response.json)
    IN  IF early # NoResult THEN early
        ELSE IF openai_response.items = <<>>
             THEN Err("send_request", "InvalidResponse", <<"No choices in response">>)
        ELSE Ok("send_request", Some(LLMResponse_new(
                    openai_response.items[Len(openai_response.items)],
                    openai_response.tokens_in, openai_response.tokens_out)))

\* OpenAIProvider::send_request from the response on
OpenAIParse(response) ==
    LET early == Received(response, "openai")
        openai_response == Unwrap(response.json)
    IN  IF early # NoResult THEN early
        ELSE IF openai_response.items = <<>>
             THEN Err("send_request", "InvalidResponse", <<"No choices in response">>)
        ELSE Ok("send_request", Some(LLMResponse_new(openai_response.items[1],
                    openai_response.tokens_in, openai_response.tokens_out)))

\* providers/groq.rs: the OpenAI wire format
GroqParse(response) == OpenAIParse(response)

\* AnthropicProvider::send_request from the response on
AnthropicParse(response) ==
    LET early == Received(response, "anthropic")
        anthropic_response == Unwrap(response.json)
    IN  IF early # NoResult THEN early
        ELSE IF anthropic_response.items = <<>>
             THEN Err("send_request", "InvalidResponse", <<"No content in response">>)
        ELSE Ok("send_request", Some(LLMResponse_new(anthropic_response.items[1],
                    anthropic_response.tokens_in, anthropic_response.tokens_out)))

\* GeminiProvider::send_request from the response on
GeminiParse(response) ==
    LET early == Received(response, "gemini")
        gemini_response == Unwrap(response.json)
    IN  IF early # NoResult THEN early
        ELSE IF gemini_response.items = <<>>
             THEN Err("send_request", "InvalidResponse", <<"No candidates in response">>)
        ELSE IF gemini_response.items[1] = <<>>
             THEN Err("send_request", "InvalidResponse", <<"No parts in response">>)
        ELSE Ok("send_request", Some(LLMResponse_new(gemini_response.items[1][1],
                    gemini_response.tokens_in, gemini_response.tokens_out)))

Parse(self, response) ==
    CASE self.provider = "OpenAI" -> OpenAIParse(response)
      [] self.provider = "Anthropic" -> AnthropicParse(response)
      [] self.provider = "Gemini" -> GeminiParse(response)
      [] self.provider = "Groq" -> GroqParse(response)

(***************************************************************************)
(* TurbineClient::send_request(&request): the facade hands the request to  *)
(* its adapter.  SendBegin runs the adapter up to the await of the POST,   *)
(* SendComplete from the arrival of the response on.                       *)
(***************************************************************************)
SendBegin ==
    /\ pc = "idle"
    /\ IsSome(client)
    /\ IsSome(callerRequest)
    /\ httpCalls < MaxCalls
    /\ LET built == Build(Unwrap(client).provider, Unwrap(callerRequest))
       IN  IF built.ok
           THEN /\ wire' = built.post
                /\ httpCalls' = httpCalls + 1
                /\ pc' = "awaiting"
                /\ result' = [NoResult EXCEPT !.op = "send_request"]
           ELSE /\ result' = Err("send_request", built.err, built.payload)
                /\ UNCHANGED <<wire, httpCalls, pc>>
    /\ UNCHANGED <<env, client, resolverVars, callerRequest, prompted, lineRead, calls>>

SendComplete(response) ==
    /\ pc = "awaiting"
    /\ result' = Parse(Unwrap(client).provider, response)
    /\ pc' = "idle"
    /\ UNCHANGED <<env, client, resolverVars, callerRequest, wire, httpCalls, prompted, lineRead, calls>>

(***************************************************************************)
(* Tasks of the application that share the client.  TurbineClient takes    *)
(* &self and the adapters are Send + Sync, so any number of send_request   *)
(* invocations may be between their POST and its response at once.  Each   *)
(* invocation is an entry of `calls`: the facade method it came in by, the *)
(* texts it was called with, the request the adapter was given, the POST   *)
(* it issued (None when it                                                 *)
(* returned before the POST), the response it got, the adapter's outcome   *)
(* and what the facade returned to its caller.                             *)
(***************************************************************************)
Call(via, arg, request, built) ==
    [ via |-> via,
      arg |-> arg,
      request |-> request,
      post |-> built.post,
      response |-> None,
      outcome |-> IF built.ok THEN NoResult ELSE Err("send_request", built.err, built.payload),
      returned |-> NoResult,
      done |-> ~built.ok ]

\* A facade that reports every adapter error as an ApiError.
Forward_AsApiError(outcome) ==
    IF outcome.ok THEN outcome ELSE [outcome EXCEPT !.err = "ApiError"]

\* self.provider.send_request(request).await: what the facade returns is what
\* the adapter returned.
Forward(outcome) == outcome

\* An adapter that keeps the body it sends in a place its invocations share:
\* the POSTs that are not answered yet carry the body built last.
Invoke_SharedBody(via, arg, request) ==
    /\ IsSome(client)
    /\ Len(calls) < MaxInvocations
    /\ \E built \in {Build(Unwrap(client).provider, request)} :
           /\ LET call == Call(via, arg, request, built)
                  shared == [i \in DOMAIN calls |->
                                IF built.ok /\ ~calls[i].done
                                THEN [calls[i] EXCEPT !.post = built.post]
                                ELSE calls[i]]
              IN  calls' = Append(shared, [call EXCEPT !.returned = IF built.ok THEN NoResult
                                                                   ELSE Forward(call.outcome)])
           /\ httpCalls' = IF built.ok THEN httpCalls + 1 ELSE httpCalls
    /\ UNCHANGED <<env, client, resolverVars, callerRequest, wire, pc, prompted, lineRead>>

\* TurbineClient::send_request(&request), up to the await of the POST
Invoke(via, arg, request) ==
    /\ IsSome(client)
    /\ Len(calls) < MaxInvocations
    /\ \E built \in {Build(Unwrap(client).provider, request)} :
           /\ LET call == Call(via, arg, request, built)
              IN  calls' = Append(calls, [call EXCEPT !.returned = IF built.ok THEN NoResult
                                                                  ELSE Forward(call.outcome)])
           /\ httpCalls' = IF built.ok THEN httpCalls + 1 ELSE httpCalls
    /\ UNCHANGED <<env, client, resolverVars, callerRequest, wire, pc, prompted, lineRead>>

\* The application has built `request` and holds it.
Prepare(request) ==
    /\ callerRequest # Some(request)
    /\ callerRequest' = Some(request)
    /\ UNCHANGED <<env, client, result, resolverVars, wire, pc, httpCalls, prompted, lineRead, calls>>

\* A send_request that works on the caller's message list in place of a copy
\* of it.
SendRequest_InPlace ==
    /\ IsSome(client)
    /\ IsSome(callerRequest)
    /\ Len(calls) < MaxInvocations
    /\ \E built \in {Build(Unwrap(client).provider, Unwrap(callerRequest))} :
           /\ calls' = Append(calls, Call("send_request", <<>>, Unwrap(callerRequest), built))
           /\ httpCalls' = IF built.ok THEN httpCalls + 1 ELSE httpCalls
           /\ callerRequest' =
                  IF built.ok /\ "messages" \in DOMAIN Unwrap(built.post).body
                  THEN Some([Unwrap(callerRequest) EXCEPT
                                 !.messages = Unwrap(built.post).body.messages])
                  ELSE callerRequest
    /\ UNCHANGED <<env, client, result, resolverVars, wire, pc, prompted, lineRead>>

\* A task calls client.send_request(&request) with the application's request.
SendRequest ==
    /\ IsSome(callerRequest)
    /\ Invoke("send_request", <<>>, Unwrap(callerRequest))
    /\ UNCHANGED result

NoDefaultModel ==
    <<"No default model set. Use from_model() constructor or send_request() directly">>

\* A send that falls back to an empty model name when no default model is set.
Send_EmptyModel(message) ==
    /\ IsSome(client)
    /\ Invoke("send", <<message>>,
              with_message(LLMRequest_new(IF Unwrap(client).default_model = None THEN <<>>
                                          ELSE Unwrap(Unwrap(client).default_model)),
                           Message_user(message)))
    /\ UNCHANGED result

\* TurbineClient::send(message)
Send(message) ==
    /\ IsSome(client)
    /\ IF Unwrap(client).default_model = None
       THEN /\ result' = Of(<<message>>, Err("send", "MissingField", NoDefaultModel))
            /\ UNCHANGED <<env, client, resolverVars, sendVars, prompted, lineRead>>
       ELSE /\ Invoke("send", <<message>>,
                      with_message(LLMRequest_new(Unwrap(Unwrap(client).default_model)),
                                   Message_user(message)))
            /\ UNCHANGED result

\* TurbineClient::send_with_system(system_prompt, message)
SendWithSystem(system_prompt, message) ==
    /\ IsSome(client)
    /\ IF Unwrap(client).default_model = None
       THEN /\ result' = Of(<<system_prompt, message>>,
                            Err("send_with_system", "MissingField", NoDefaultModel))
            /\ UNCHANGED <<env, client, resolverVars, sendVars, prompted, lineRead>>
       ELSE /\ Invoke("send_with_system", <<system_prompt, message>>,
                      with_message(with_system_prompt(
                                       LLMRequest_new(Unwrap(Unwrap(client).default_model)),
                                       system_prompt),
                                   Message_user(message)))
            /\ UNCHANGED result

\* An adapter that issues its POST again when the call has failed.
Respond_Retrying(i, response) ==
    /\ i \in DOMAIN calls
    /\ ~calls[i].done
    /\ \E outcome \in {Parse(Unwrap(client).provider, response)} :
           IF outcome.ok
           THEN /\ calls' = [calls EXCEPT ![i] = [@ EXCEPT !.response = Some(response),
                                                          !.outcome = outcome,
                                                          !.returned = Forward(outcome),
                                                          !.done = TRUE]]
                /\ UNCHANGED httpCalls
           ELSE /\ calls' = [calls EXCEPT ![i] = [@ EXCEPT !.response = Some(response)]]
                /\ httpCalls' = httpCalls + 1
    /\ UNCHANGED <<env, client, result, resolverVars, callerRequest, wire, pc, prompted, lineRead>>

\* The response of invocation i's POST arrives: the rest of the adapter's
\* send_request runs and the facade returns.
Respond(i, response) ==
    /\ i \in DOMAIN calls
    /\ ~calls[i].done
    /\ \E outcome \in {Parse(Unwrap(client).provider, response)} :
           calls' = [calls EXCEPT ![i] = [@ EXCEPT !.response = Some(response),
                                                  !.outcome = outcome,
                                                  !.returned = Forward(outcome),
                                                  !.done = TRUE]]
    /\ UNCHANGED <<env, client, result, resolverVars, callerRequest, wire, pc, httpCalls, prompted, lineRead>>

(***************************************************************************)
(* Specifications.                                                         *)
(***************************************************************************)
Envs == [EnvVarNames -> EnvValues]
NoEnv == [n \in EnvVarNames |-> Absent]
FullEnv == [n \in EnvVarNames |-> SetTo(<<"k","1">>)]

InitWith(e, c) ==
    /\ env = e
    /\ client = c
    /\ result = NoResult
    /\ resolved = None
    /\ resolvedBefore = None
    /\ callerRequest = None
    /\ wire = None
    /\ pc = "idle"
    /\ httpCalls = 0
    /\ prompted = FALSE
    /\ lineRead = None
    /\ calls = <<>>

\* The resolver, called in an environment that from_model changes.
FromModelStrings == DocStrings

InitResolver == InitWith(NoEnv, None)
NextResolver ==
    \/ \E model \in ModelStrings : Resolve(model)
    \/ \E line \in Lines : FromModel(S_gpt_4o_mini, line)
SpecResolver == InitResolver /\ [][NextResolver]_vars

\* The constructors, in every environment.
InitConstruct == \E e \in Envs : InitWith(e, None)
NextConstruct ==
    \/ \E p \in Providers : ClientNew(p)
    \/ \E model \in FromModelStrings, line \in Lines : FromModel(model, line)
SpecConstruct == InitConstruct /\ [][NextConstruct]_vars

\* A client of each provider sends the request the application builds.
InitSend ==
    \E p \in {"OpenAI", "Anthropic", "Gemini"} :
        InitWith(FullEnv, Some(TurbineClient(Unwrap(ProviderNew(p, FullEnv).adapter), None)))
NextSend ==
    \/ \E model \in RequestModels : RequestNew(model)
    \/ \E message \in Messages : WithMessage(message)
    \/ \E prompt \in Prompts : WithSystemPrompt(prompt)
    \/ \E format \in OutputFormats : WithOutputFormat(format)
    \/ SendBegin
    \/ \E response \in SomeResponses : SendComplete(response)
SpecSend == InitSend /\ [][NextSend]_vars

\* The vendor's response body with one item, and the one with none.
GoodJson(p) ==
    CASE p = "OpenAI" -> OpenAIJson(<<"Hi Alice">>, 12, 3)
      [] p = "Anthropic" -> AnthropicJson(<<"Hi Alice">>, 12, 3)
      [] p = "Gemini" -> GeminiJson(<<<<"Hi Alice">>>>, 12, 3)
EmptyJson(p) ==
    CASE p = "OpenAI" -> OpenAIJson(<<>>, 12, 3)
      [] p = "Anthropic" -> AnthropicJson(<<>>, 12, 3)
      [] p = "Gemini" -> GeminiJson(<<>>, 12, 3)

\* One response for each way a send_request of provider p ends.
ResponsesFor(p) ==
    { TransportError, Delivered(FALSE, <<"oops">>, None), Delivered(TRUE, <<"oops">>, None),
      Delivered(TRUE, <<ToString(EmptyJson(p))>>, Some(EmptyJson(p))),
      Delivered(TRUE, <<ToString(GoodJson(p))>>, Some(GoodJson(p))) }

\* The adapters whose code is in providers/.
AdapterProviders == {"OpenAI", "Anthropic", "Gemini"}

\* Requests the application builds and reuses.
R_user == with_message(LLMRequest_new(S_gpt_4o_mini), Message_user(<<"a">>))
R_user_json == with_output_format(R_user, "Json")
R_prompt_json ==
    with_output_format(with_message(with_system_prompt(LLMRequest_new(S_gpt_4o_mini),
                                                       <<"Be brief.">>),
                                    Message_user(<<"a">>)), "Json")
R_system_json ==
    with_output_format(with_message(LLMRequest_new(S_gpt_4o_mini), Message_system(<<"b">>)),
                       "Json")

\* The application constructs one client, by provider or by model string,
\* and uses it through all three send methods.
FacadeRequests == {R_user, R_system_json}
InitFacade == InitWith(FullEnv, None)
NextFacade ==
    \/ client = None /\ \E p \in AdapterProviders : ClientNew(p)
    \/ client = None /\ ClientNewWithKey("Anthropic", <<"k","2">>)
    \/ client = None /\ \E model \in FromModelStrings : FromModel(model, <<>>)
    \/ \E message \in Contents : Send(message)
    \/ \E prompt \in Prompts : SendWithSystem(prompt, <<"a">>)
    \/ \E request \in FacadeRequests : Prepare(request)
    \/ SendRequest
    \/ IsSome(client) /\ \E i \in 1..MaxInvocations :
           \E response \in ResponsesFor(Unwrap(client).provider.provider) : Respond(i, response)
SpecFacade == InitFacade /\ [][NextFacade]_vars

\* Every response, to the sends of one request by a client of each provider.
ClientsByNew ==
    {TurbineClient(Unwrap(ProviderNew(p, FullEnv).adapter), None) : p \in AdapterProviders}
InitReceive == \E c \in ClientsByNew : InitWith(FullEnv, Some(c))
NextReceive ==
    \/ Prepare(R_user)
    \/ SendRequest
    \/ \E i \in 1..MaxInvocations, response \in HttpResponses : Respond(i, response)
SpecReceive == InitReceive /\ [][NextReceive]_vars

\* Tasks that send the application's requests through one client, their
\* invocations overlapping in every way.
ConcurrentRequests == {R_user, R_user_json, R_prompt_json, R_system_json}
InitConcurrent == \E c \in ClientsByNew : InitWith(FullEnv, Some(c))
NextConcurrent ==
    \/ \E request \in ConcurrentRequests : Prepare(request)
    \/ SendRequest
    \/ \E i \in 1..MaxInvocations :
           \E response \in ResponsesFor(Unwrap(client).provider.provider) : Respond(i, response)
SpecConcurrent == InitConcurrent /\ [][NextConcurrent]_vars

\* A client of each provider sends a request whose generation parameters,
\* system prompt and output format the application has chosen.
ParamMessages == {Message_user(<<"a">>), Message_system(<<"b">>)}
InitParams == \E c \in ClientsByNew : InitWith(FullEnv, Some(c))
NextParams ==
    \/ \E model \in RequestModels : RequestNew(model)
    \/ \E message \in ParamMessages : WithMessage(message)
    \/ \E prompt \in Prompts : WithSystemPrompt(prompt)
    \/ \E format \in OutputFormats : WithOutputFormat(format)
    \/ \E n \in TokenLimits : WithMaxTokens(n)
    \/ WithoutMaxTokens
    \/ \E x \in Temperatures : WithTemperature(x)
    \/ \E x \in TopPs : WithTopP(x)
    \/ SendBegin
    \/ SendComplete(TransportError)
SpecParams == InitParams /\ [][NextParams]_vars

Init == InitWith(NoEnv, None)
Next ==
    \/ NextResolver
    \/ NextConstruct
    \/ NextSend
    \/ NextFacade
    \/ NextReceive
    \/ NextConcurrent
    \/ NextParams
    \/ \E response \in HttpResponses : SendComplete(response)
Spec == Init /\ [][Next]_vars

(***************************************************************************)
(* Vocabulary of the properties, stated without the operators of the       *)
(* model above.                                                            *)
(***************************************************************************)
HasSlash(s) == \E i \in 1..Len(s) : s[i] = "/"
IsFirstSlash(s, i) == i \in 1..Len(s) /\ s[i] = "/" /\ \A j \in 1..Len(s) : j < i => s[j] # "/"

\* a and b are the same letter in either case, or the same character
SameCharIgnoringCase(a, b) ==
    a = b \/ \E i \in 1..Len(UpperChars) : {a, b} = {UpperChars[i], LowerChars[i]}
EqualsIgnoringCase(s, w) ==
    Len(s) = Len(w) /\ \A i \in 1..Len(w) : SameCharIgnoringCase(s[i], w[i])
StartsWithIgnoringCase(s, w) ==
    Len(s) >= Len(w) /\ \A i \in 1..Len(w) : SameCharIgnoringCase(s[i], w[i])
HasUpperCase(s) == \E i \in 1..Len(s), k \in 1..Len(UpperChars) : s[i] = UpperChars[k]

TheClient == Unwrap(client)
TheRequest == Unwrap(callerRequest)
TheResolved == Unwrap(resolved)
SentBy(p) == IsSome(client) /\ TheClient.provider.provider = p /\ IsSome(wire)

\* C1: OpenAI adapter, JSON mode: the wire message list of every Json request
\* starts with a system message that carries the instruction; it is the first
\* message of the list after the system_prompt insertion, with the instruction
\* appended, when that message has role system, and otherwise a new system
\* message holding only the instruction, put before the unchanged list.
C1_JsonInstructionLeads ==
    (SentBy("OpenAI") /\ TheRequest.output_format = "Json") =>
        LET instruction == "You must respond with valid JSON only."
            base == IF IsSome(TheRequest.system_prompt)
                    THEN <<[role |-> "system", content |-> Unwrap(TheRequest.system_prompt)]>>
                         \o TheRequest.messages
                    ELSE TheRequest.messages
            sent == Unwrap(wire).body.messages
        IN  /\ sent # <<>>
            /\ sent[1].role = "system"
            /\ sent[1].content # <<>>
            /\ sent[1].content[Len(sent[1].content)] = instruction
            /\ IF base # <<>> /\ base[1].role = "system"
               THEN /\ Tail(sent) = Tail(base)
                    /\ starts_with(sent[1].content, base[1].content)
               ELSE sent = <<[role |-> "system", content |-> <<instruction>>]>> \o base

\* C2: a model string with '/' whose lower-cased prefix is not in the table
\* fails with UnknownProvider(prefix), one without '/' that no heuristic
\* matches fails with ProviderInferenceFailed(model string), and a failure is
\* of no other kind.
C2_DedicatedErrorKinds ==
    (IsSome(resolved) /\ ~TheResolved.outcome.ok) =>
        LET s == TheResolved.input
            out == TheResolved.outcome
        IN  IF HasSlash(s)
            THEN /\ out.err = "UnknownProvider"
                 /\ \E i \in 1..Len(s) : IsFirstSlash(s, i) /\ out.payload = SubSeq(s, 1, i - 1)
            ELSE /\ out.err = "ProviderInferenceFailed"
                 /\ out.payload = s

\* C3: TurbineClient::new(provider) fails with CredentialNotFound (the code's
\* ApiKeyNotFound) carrying the provider's env-var name when the variable is
\* absent or unreadable, and succeeds with the variable's value as the key
\* when it is present.
C3_NewReadsCredential ==
    result.op = "new" =>
        LET p == Unwrap(result.arg)
            variable == env[env_var(p)]
        IN  IF variable.present /\ variable.unicode
            THEN /\ result.ok
                 /\ IsSome(client)
                 /\ TheClient.provider.provider = p
                 /\ TheClient.provider.api_key = variable.value
            ELSE /\ ~result.ok
                 /\ result.err = "ApiKeyNotFound"
                 /\ result.payload = <<env_var(p)>>

\* C4: a model string with '/' is split at its first '/' only: when the text
\* before it is, ignoring case, openai, anthropic, google, gemini or groq, the
\* call returns that provider (google and gemini both Gemini) and, as the
\* model name, exactly the text after the first '/', later '/' and letter
\* case kept; "google/gemini-flash" gives (Gemini, "gemini-flash").
C4_ExplicitPrefix ==
    (IsSome(resolved) /\ HasSlash(TheResolved.input)) =>
        LET s == TheResolved.input
            out == TheResolved.outcome
            i == CHOOSE k \in 1..Len(s) : IsFirstSlash(s, k)
            prefix == [k \in 1..(i - 1) |-> s[k]]
            rest == [k \in 1..(Len(s) - i) |-> s[i + k]]
            Is(p) == out.ok /\ out.provider = p /\ out.model = rest
        IN  /\ EqualsIgnoringCase(prefix, W_openai) => Is("OpenAI")
            /\ EqualsIgnoringCase(prefix, W_anthropic) => Is("Anthropic")
            /\ EqualsIgnoringCase(prefix, W_google) => Is("Gemini")
            /\ EqualsIgnoringCase(prefix, W_gemini) => Is("Gemini")
            /\ EqualsIgnoringCase(prefix, W_groq) => Is("Groq")
            /\ out.ok => \E w \in {W_openai, W_anthropic, W_google, W_gemini, W_groq} :
                             EqualsIgnoringCase(prefix, w)
            /\ s = <<"g","o","o","g","l","e","/","g","e","m","i","n","i","-","f","l","a","s","h">>
                   => /\ out.provider = "Gemini"
                      /\ out.model = <<"g","e","m","i","n","i","-","f","l","a","s","h">>

\* A mixed-case prefix, and a model name that holds a later '/'.
C4_Witness ==
    /\ IsSome(resolved)
    /\ TheResolved.outcome.ok
    /\ HasSlash(TheResolved.outcome.model)
    /\ HasUpperCase(TheResolved.input)
    /\ TheResolved.outcome.provider = "OpenAI"

\* C5: a model string without '/' resolves by what it starts with, ignoring
\* case, in the order gpt -> OpenAI, claude -> Anthropic, gemini -> Gemini,
\* llama or mixtral -> Groq, and fails when it starts with none of them; the
\* model name returned is the input itself, not lower-cased and not trimmed.
C5_Inference ==
    (IsSome(resolved) /\ ~HasSlash(TheResolved.input)) =>
        LET s == TheResolved.input
            out == TheResolved.outcome
            expected ==
                IF StartsWithIgnoringCase(s, W_gpt) THEN "OpenAI"
                ELSE IF StartsWithIgnoringCase(s, W_claude) THEN "Anthropic"
                ELSE IF StartsWithIgnoringCase(s, W_gemini) THEN "Gemini"
                ELSE IF StartsWithIgnoringCase(s, W_llama) \/ StartsWithIgnoringCase(s, W_mixtral)
                     THEN "Groq"
                ELSE "none"
        IN  IF expected = "none"
            THEN ~out.ok
            ELSE out.ok /\ out.provider = expected /\ out.model = s

\* An upper-case input that a heuristic matches.
C5_Witness ==
    /\ IsSome(resolved)
    /\ ~HasSlash(TheResolved.input)
    /\ HasUpperCase(TheResolved.input)
    /\ TheResolved.outcome.ok
    /\ TheResolved.outcome.provider = "Anthropic"

\* C6: from_model_string depends on nothing but its argument and changes
\* nothing: a call returns what the application's previous call on the same
\* string returned, whatever ran in between and whatever the environment has
\* become, and a call leaves the environment, the client and the send state
\* as they were.
C6_SameAsBefore ==
    IsSome(resolvedBefore) => Unwrap(resolvedBefore) = TheResolved.outcome

NonSystem(messages) == {i \in 1..Len(messages) : messages[i].role # "system"}
KthNonSystem(messages, k) ==
    CHOOSE i \in NonSystem(messages) :
        Cardinality({j \in NonSystem(messages) : j < i}) = k - 1

\* C7: on the Anthropic and the Gemini adapter a request with no message
\* other than system messages fails with MissingField, whatever its
\* system_prompt and output_format, and no HTTP call is made for it.
C7_EmptyMessagesFail ==
    ( /\ IsSome(client)
      /\ TheClient.provider.provider \in {"Anthropic", "Gemini"}
      /\ IsSome(callerRequest)
      /\ NonSystem(TheRequest.messages) = {}
      /\ result.op = "send_request" )
    => /\ ~result.ok
       /\ result.err = "MissingField"
       /\ httpCalls = 0
       /\ wire = None
       /\ pc = "idle"

\* A Gemini send of a Json request with a system prompt whose only message is
\* a system message.
C7_Witness ==
    /\ IsSome(client) /\ TheClient.provider.provider = "Gemini"
    /\ IsSome(callerRequest)
    /\ TheRequest.messages # <<>>
    /\ NonSystem(TheRequest.messages) = {}
    /\ TheRequest.output_format = "Json"
    /\ IsSome(TheRequest.system_prompt)
    /\ result.op = "send_request"
    /\ result.err = "MissingField"

\* C8: the message array the Anthropic adapter sends is the request's
\* messages without the system messages, in their order, role and content
\* unchanged; no system message is in it.
C8_AnthropicFilter ==
    SentBy("Anthropic") =>
        LET messages == TheRequest.messages
            sent == Unwrap(wire).body.messages
        IN  /\ Len(sent) = Cardinality(NonSystem(messages))
            /\ \A k \in 1..Len(sent) : sent[k] = messages[KthNonSystem(messages, k)]
            /\ \A k \in 1..Len(sent) : sent[k].role # "system"

\* A system message between two others, of which the second is no user
\* message.
C8_Witness ==
    /\ SentBy("Anthropic")
    /\ Len(TheRequest.messages) = 3
    /\ TheRequest.messages[1].role = "user"
    /\ TheRequest.messages[2].role = "system"
    /\ TheRequest.messages[3].role = "assistant"
    /\ TheRequest.messages[1].content # TheRequest.messages[3].content
    /\ TheRequest.system_prompt = None
    /\ Len(Unwrap(wire).body.messages) = 2

\* C9: the system field the Anthropic adapter sends: in Json mode the
\* prompt, a space and the instruction, or the instruction alone when there
\* is no prompt; in Text mode the prompt; and no system field at all when
\* there is neither a prompt nor the instruction.
C9_AnthropicSystem ==
    SentBy("Anthropic") =>
        LET body == Unwrap(wire).body
            prompt == TheRequest.system_prompt
            instruction ==
                "You must respond with valid JSON only. Start your response with an opening brace {."
        IN  IF TheRequest.output_format = "Json"
            THEN /\ "system" \in DOMAIN body
                 /\ body.system = IF prompt = <<>>
                                  THEN <<instruction>>
                                  ELSE prompt[1] \o <<" ", instruction>>
            ELSE IF prompt = <<>>
                 THEN "system" \notin DOMAIN body
                 ELSE "system" \in DOMAIN body /\ body.system = prompt[1]

\* A Json request with a prompt.
C9_Witness ==
    /\ SentBy("Anthropic")
    /\ TheRequest.output_format = "Json"
    /\ TheRequest.system_prompt = <<<<"Be brief.">>>>

\* C10: the contents array the Gemini adapter sends has one entry for each
\* message that is no system message, in their order, each with one part that
\* holds the message's content, and with role "model" for an assistant
\* message and "user" for every other one.
C10_GeminiRoles ==
    SentBy("Gemini") =>
        LET messages == TheRequest.messages
            contents == Unwrap(wire).body.contents
        IN  /\ Len(contents) = Cardinality(NonSystem(messages))
            /\ \A k \in 1..Len(contents) :
                   LET message == messages[KthNonSystem(messages, k)]
                   IN  /\ contents[k].role = IF message.role = "assistant" THEN "model" ELSE "user"
                       /\ contents[k].parts = <<[text |-> message.content]>>

\* A system message, an assistant message and one of an unrecognized role.
C10_Witness ==
    /\ SentBy("Gemini")
    /\ {TheRequest.messages[i].role : i \in 1..Len(TheRequest.messages)}
           = {"system", "assistant", "tool"}
    /\ Len(Unwrap(wire).body.contents) = 2

\* The invocations that came in by the method `via`.
CallsVia(via) == {i \in DOMAIN calls : calls[i].via = via}
ByText == {"send", "send_with_system"}

\* C11 in a state: a client without a default model has made no adapter call
\* for send or send_with_system and these have failed with MissingField; on a
\* client with a default model they have not failed, and every request they
\* handed to send_request has the default model, the one user message with
\* the given text and, for send_with_system, the given prompt.
C11_DefaultModelState ==
    IsSome(client) =>
        IF TheClient.default_model = <<>>
        THEN /\ \A i \in DOMAIN calls : calls[i].via \notin ByText
             /\ result.op \in ByText =>
                    ~result.ok /\ result.err = "MissingField" /\ result.value = <<>>
        ELSE /\ result.op \notin ByText
             /\ \A i \in DOMAIN calls :
                    calls[i].via \in ByText =>
                        LET text == calls[i].arg[Len(calls[i].arg)]
                        IN  /\ calls[i].request.model = TheClient.default_model[1]
                            /\ calls[i].request.messages = <<[role |-> "user", content |-> text]>>
                            /\ calls[i].request.system_prompt =
                                   IF calls[i].via = "send" THEN <<>> ELSE <<calls[i].arg[1]>>

\* C11: TurbineClient::send and send_with_system fail with MissingField and
\* make no adapter call on a client that has no default model (one built by
\* new); on a client built from a model string they build the request with
\* the default model, the single user message and the given prompt and hand
\* it to send_request.
C11_DefaultModelPrecondition ==
    /\ []C11_DefaultModelState
    /\ [][(result'.op \in ByText /\ result' # result)
              => (calls' = calls /\ httpCalls' = httpCalls /\ wire' = wire)]_vars

\* send_with_system has failed on a client built by new_with_key, which a
\* send_request of an explicit request went through.
C11_Witness ==
    /\ IsSome(client) /\ TheClient.default_model = <<>>
    /\ TheClient.provider.api_key = <<"k","2">>
    /\ result.op = "send_with_system" /\ result.err = "MissingField"
    /\ calls # <<>>

\* C17: TurbineClient::send_request hands the caller's request to the bound
\* adapter once, as it is, and returns the adapter's outcome as it is: a
\* Response unchanged, an error with its kind and payload; the adapter and
\* the default model of a client never change.
C17_Returned ==
    \A i \in DOMAIN calls :
        IF calls[i].done
        THEN /\ calls[i].returned.ok = calls[i].outcome.ok
             /\ calls[i].returned.err = calls[i].outcome.err
             /\ calls[i].returned.payload = calls[i].outcome.payload
             /\ calls[i].returned.value = calls[i].outcome.value
        ELSE calls[i].returned = NoResult

C17_FacadeDelegation ==
    /\ []C17_Returned
    /\ [][IsSome(client) => client' = client]_vars
    /\ [][calls' # calls =>
            \/ /\ Len(calls') = Len(calls) + 1
               /\ SubSeq(calls', 1, Len(calls)) = calls
               /\ httpCalls' \in {httpCalls, httpCalls + 1}
               /\ calls'[Len(calls')].via = "send_request" =>
                      /\ IsSome(callerRequest)
                      /\ calls'[Len(calls')].request = TheRequest
                      /\ callerRequest' = callerRequest
            \/ /\ Len(calls') = Len(calls)
               /\ httpCalls' = httpCalls]_vars

\* The facade has returned an adapter's MissingField, an ApiError, an
\* InvalidResponse and a Response.
C17_Witness ==
    /\ Len(calls) = 2
    /\ \A i \in DOMAIN calls : calls[i].done /\ calls[i].via = "send_request"
    /\ {calls[i].returned.err : i \in DOMAIN calls} \in
           {{"MissingField", "ApiError"}, {"InvalidResponse", ""}}

\* A variable of the environment that std::env::var reads a value from.
Readable(variable) == variable.present /\ variable.unicode
BlankChars == {" ", "\n", "\r", "\t"}
Blank(line) == \A i \in 1..Len(line) : line[i] \in BlankChars
\* key is line without the blank characters at its two ends
Stripped(line, key) ==
    /\ key # <<>> /\ key[1] \notin BlankChars /\ key[Len(key)] \notin BlankChars
    /\ \E a \in 1..Len(line) :
           /\ a + Len(key) - 1 <= Len(line)
           /\ key = SubSeq(line, a, a + Len(key) - 1)
           /\ \A j \in 1..Len(line) : (j < a \/ j > a + Len(key) - 1) => line[j] \in BlankChars

\* C12: TurbineClient::from_model: when the model string resolves and the
\* provider's credential cannot be read from the environment, the key is
\* asked for and installed under the provider's env-var name before the
\* adapter is constructed, so that the adapter is built with the entered key
\* and the client has the resolved model name as its default model; when the
\* credential is there, nothing is asked and nothing written; when the string
\* does not resolve, nothing is asked, nothing written and no client made.
C12_FromModelOrdering ==
    [][result'.op = "from_model" =>
        \A parsed \in {from_model_string(result'.arg[1])} :
            IF ~parsed.ok
            THEN /\ ~result'.ok
                 /\ ~prompted' /\ lineRead' = <<>>
                 /\ env' = env
                 /\ client' = client
            ELSE LET name == env_var(parsed.provider)
                     built(key) == <<[provider |-> [provider |-> parsed.provider,
                                                    api_key |-> key,
                                                    base_url |-> base_url(parsed.provider)],
                                      default_model |-> <<parsed.model>>]>>
                 IN  IF Readable(env[name])
                     THEN /\ ~prompted' /\ lineRead' = <<>>
                          /\ env' = env
                          /\ result'.ok
                          /\ client' = built(env[name].value)
                     ELSE /\ prompted' /\ lineRead' # <<>>
                          /\ ~Blank(lineRead'[1]) =>
                                 /\ result'.ok
                                 /\ Readable(env'[name])
                                 /\ Stripped(lineRead'[1], env'[name].value)
                                 /\ \A other \in DOMAIN env : other # name => env'[other] = env[other]
                                 /\ client' = built(env'[name].value)]_vars

\* from_model has asked for the Gemini key, read " k2 \r\n" and built the
\* client with k2.
C12_Witness ==
    /\ result.op = "from_model" /\ result.ok
    /\ prompted
    /\ lineRead = << <<" ","k","2"," ","\r","\n">> >>
    /\ env["GEMINI_API_KEY"] = [present |-> TRUE, unicode |-> TRUE, value |-> <<"k","2">>]
    /\ IsSome(client)
    /\ TheClient.provider.provider = "Gemini"
    /\ TheClient.provider.api_key = <<"k","2">>
    /\ TheClient.default_model = << <<"g","e","m","i","n","i","-","f","l","a","s","h">> >>

\* C13: when from_model finds no credential and the line it reads is empty
\* or only whitespace, it fails with CredentialNotFound (the code's
\* ApiKeyNotFound) naming the provider's env var, leaves the environment as
\* it was and constructs no client.
C13_EmptyInputRejected ==
    [][(result'.op = "from_model" /\ lineRead' # <<>> /\ Blank(lineRead'[1])) =>
        \A parsed \in {from_model_string(result'.arg[1])} :
        LET name == env_var(parsed.provider)
        IN  /\ parsed.ok
            /\ ~Readable(env[name])
            /\ ~result'.ok
            /\ result'.err = "ApiKeyNotFound"
            /\ result'.payload = <<name>>
            /\ result'.value = <<>>
            /\ env' = env
            /\ client' = client]_vars

\* from_model has read a line of a space and a newline for the Anthropic key
\* and has failed; the variable is still not set.
C13_Witness ==
    /\ result.op = "from_model" /\ result.err = "ApiKeyNotFound"
    /\ result.payload = <<"ANTHROPIC_API_KEY">>
    /\ lineRead = << <<" ","\n">> >>
    /\ ~env["ANTHROPIC_API_KEY"].present
    /\ client = <<>>

\* The invocations whose POST was answered with the response they hold.
Answered == {i \in DOMAIN calls : calls[i].response # <<>>}
TheResponse(i) == calls[i].response[1]

\* C14: when the HTTP call of a send_request ends with a non-success status
\* and its body, the adapter fails with ApiError carrying the body text as it
\* is; the body is not decoded, whatever it holds, and there is no Response.
C14_NonSuccessIsApiError ==
    \A i \in Answered :
        LET response == TheResponse(i)
        IN  (response.transport_ok /\ response.body_ok /\ ~response.success) =>
                /\ calls[i].done
                /\ ~calls[i].outcome.ok
                /\ calls[i].outcome.err = "ApiError"
                /\ calls[i].outcome.payload = response.text
                /\ calls[i].outcome.value = <<>>

\* Non-success answers of both kinds: a body that is no JSON, and a body that
\* is a well-formed response of the client's vendor.
C14_Witness ==
    /\ Len(calls) = 2
    /\ \A i \in DOMAIN calls : i \in Answered /\ ~TheResponse(i).success /\ TheResponse(i).body_ok
    /\ TheResponse(1).json = <<>>
    /\ TheResponse(2).json # <<>>
    /\ \/ TheClient.provider.provider = "OpenAI" /\ TheResponse(2).json[1].shape = "openai"
       \/ TheClient.provider.provider = "Anthropic" /\ TheResponse(2).json[1].shape = "anthropic"
       \/ TheClient.provider.provider = "Gemini" /\ TheResponse(2).json[1].shape = "gemini"
    /\ TheResponse(2).json[1].items # <<>>
    /\ calls[2].outcome.err = "ApiError"

\* The shape of the JSON value that the adapter of provider p decodes.
ShapeOf(p) ==
    CASE p = "OpenAI" -> "openai" [] p = "Anthropic" -> "anthropic" [] p = "Gemini" -> "gemini"

\* C15: a success response that decodes is translated from its first element
\* only: the content is the first choice's content, the first content
\* block's text, the first candidate's first part's text; no element is
\* InvalidResponse, and for Gemini no candidate is reported before no part;
\* input_tokens and output_tokens are the vendor's two counts as they are.
C15_FirstElementOnly ==
    \A i \in Answered :
        LET response == TheResponse(i)
            p == TheClient.provider.provider
            out == calls[i].outcome
        IN  ( /\ response.transport_ok /\ response.body_ok /\ response.success
              /\ response.json # <<>>
              /\ response.json[1].shape = ShapeOf(p) ) =>
            LET json == response.json[1]
                failed(msg) == ~out.ok /\ out.err = "InvalidResponse" /\ out.payload = <<msg>>
                                 /\ out.value = <<>>
                translated(text) ==
                    /\ out.ok
                    /\ out.value = <<[content |-> text,
                                      usage |-> [input_tokens |-> json.tokens_in,
                                                 output_tokens |-> json.tokens_out]]>>
            IN  IF p = "Gemini"
                THEN IF json.items = <<>> THEN failed("No candidates in response")
                     ELSE IF json.items[1] = <<>> THEN failed("No parts in response")
                     ELSE translated(json.items[1][1])
                ELSE IF json.items = <<>>
                     THEN failed(IF p = "OpenAI" THEN "No choices in response"
                                 ELSE "No content in response")
                     ELSE translated(json.items[1])

\* An OpenAI response of two choices, "Hi Alice" first, with usage 3 and 12.
C15_Witness ==
    /\ TheClient.provider.provider = "OpenAI"
    /\ \E i \in Answered :
           /\ TheResponse(i).success
           /\ TheResponse(i).json # <<>>
           /\ TheResponse(i).json[1].shape = "openai"
           /\ Len(TheResponse(i).json[1].items) = 2
           /\ calls[i].outcome.value =
                  <<[content |-> "Hi Alice", usage |-> [input_tokens |-> 3, output_tokens |-> 12]]>>

\* C16 in a state: there are no more HTTP calls than invocations, one for each
\* invocation that got to its POST; an invocation that was answered has
\* ended, and one that ended with an error has no Response.
C16_OneCallEach ==
    /\ httpCalls <= Len(calls)
    /\ httpCalls = Cardinality({i \in DOMAIN calls : calls[i].post # <<>>})
    /\ \A i \in DOMAIN calls :
           /\ i \in Answered => calls[i].done
           /\ (calls[i].done /\ ~calls[i].outcome.ok) =>
                  calls[i].outcome.value = <<>> /\ calls[i].returned.value = <<>>

\* C16: a send_request that gets to the network issues one HTTP call and no
\* second one: a transport error, a non-success status, a decode failure and
\* an InvalidResponse each end the invocation with that error and without a
\* Response, and the HTTP calls never outnumber the invocations.
C16_OneCallNoRetry ==
    /\ []C16_OneCallEach
    /\ [][Len(calls') = Len(calls) => httpCalls' = httpCalls]_vars
    /\ [][Len(calls') = Len(calls) + 1 => httpCalls' \in {httpCalls, httpCalls + 1}]_vars

\* Two invocations, one POST each, ended by a transport error and by an
\* InvalidResponse.
C16_Witness ==
    /\ Len(calls) = 2 /\ httpCalls = 2
    /\ \A i \in DOMAIN calls : calls[i].done
    /\ calls[1].outcome.err = "HttpError" /\ ~TheResponse(1).transport_ok
    /\ calls[2].outcome.err = "InvalidResponse"

\* C18: the OpenAI adapter sends request.messages in their order, and with a
\* system_prompt one system message holding the prompt before them, whatever
\* system messages the list has already: these stay where they are.  Without
\* a system_prompt a Text request is sent as request.messages.  (In Json mode
\* the instruction goes into the message that leads the list.)
C18_SystemPromptPlacement ==
    SentBy("OpenAI") =>
        LET messages == TheRequest.messages
            prompt == TheRequest.system_prompt
            sent == Unwrap(wire).body.messages
            shift == Len(sent) - Len(messages)
        IN  /\ Len(sent) >= Len(messages)
            /\ \A k \in 2..Len(messages) : sent[k + shift] = messages[k]
            /\ IF prompt # <<>>
               THEN /\ shift = 1
                    /\ sent[1].role = "system"
                    /\ Len(sent[1].content) >= Len(prompt[1])
                    /\ SubSeq(sent[1].content, 1, Len(prompt[1])) = prompt[1]
                    /\ TheRequest.output_format = "Text" => sent[1].content = prompt[1]
                    /\ \A k \in 1..Len(messages) : sent[k + 1] = messages[k]
               ELSE TheRequest.output_format = "Text" => sent = messages

\* A Text request with a prompt and a system message that leads its list: two
\* system messages are sent.
C18_Witness ==
    /\ SentBy("OpenAI")
    /\ TheRequest.output_format = "Text"
    /\ TheRequest.system_prompt = << <<"Be brief.">> >>
    /\ Len(TheRequest.messages) = 2
    /\ TheRequest.messages[1].role = "system"
    /\ Len(Unwrap(wire).body.messages) = 3
    /\ Unwrap(wire).body.messages[1].role = "system"
    /\ Unwrap(wire).body.messages[2].role = "system"

\* How often the atom x is in the contents of the messages sent.
RECURSIVE Occurrences(_, _)
Occurrences(messages, x) ==
    IF messages = <<>> THEN 0
    ELSE Cardinality({k \in 1..Len(Head(messages).content) : Head(messages).content[k] = x})
         + Occurrences(Tail(messages), x)

\* C19 in a state: OpenAI invocations of equal requests have sent equal
\* payloads, and no payload of a Json request has the instruction twice.
C19_SamePayload ==
    (IsSome(client) /\ TheClient.provider.provider = "OpenAI") =>
        /\ \A i, j \in DOMAIN calls :
               calls[i].request = calls[j].request => calls[i].post = calls[j].post
        /\ \A i \in DOMAIN calls :
               calls[i].post # <<>> =>
                   Occurrences(calls[i].post[1].body.messages,
                               "You must respond with valid JSON only.") <= 1

C20_OwnRequestOwnResponse ==
    /\ \A i \in DOMAIN calls :
           /\ calls[i].post = Build(TheClient.provider, calls[i].request).post
           /\ i \in Answered => calls[i].outcome = Parse(TheClient.provider, TheResponse(i))
           /\ ~calls[i].done => calls[i].outcome = NoResult
    /\ \A i, j \in DOMAIN calls :
           calls[i].request = calls[j].request =>
               /\ calls[i].post = calls[j].post
               /\ calls[i].response = calls[j].response => calls[i].outcome = calls[j].outcome

\* C20: send_request invocations on one client that overlap in any way do
\* not touch each other: the credential and the base URL are not written
\* after construction, a step changes one invocation only and never the POST
\* of one that was made, and every payload and outcome is that of the
\* invocation run alone.
C20_ConcurrentSends ==
    /\ []C20_OwnRequestOwnResponse
    /\ [][client' = client]_vars
    /\ [][\A i, j \in DOMAIN calls :
            /\ calls'[i].post = calls[i].post
            /\ calls'[i].request = calls[i].request
            /\ calls[i].done => calls'[i] = calls[i]
            /\ (calls'[i] # calls[i] /\ calls'[j] # calls[j]) => i = j]_vars

\* Two invocations with different requests in flight at once, answered in
\* the reverse order with different outcomes.
C20_Witness ==
    /\ Len(calls) = 2
    /\ calls[1].request # calls[2].request
    /\ calls[1].post # <<>> /\ calls[2].post # <<>>
    /\ calls[1].post # calls[2].post
    /\ ~calls[1].done
    /\ calls[2].done /\ calls[2].outcome.ok

\* The wire name Gemini gives each generation parameter of a request.
GeminiParameterNames ==
    [temperature |-> "temperature", top_p |-> "topP", max_tokens |-> "maxOutputTokens"]
ParameterFields == {"max_tokens", "temperature", "top_p"}

\* C21: the body the Gemini adapter sends has the generation parameters only
\* inside its one generationConfig object: temperature, topP and
\* maxOutputTokens are each there exactly when temperature, top_p and
\* max_tokens is set on the request, with the request's value, and
\* responseMimeType is there, as "application/json", exactly when the
\* output format is Json; the top level of the body has none of them.
C21_GeminiGenerationConfig ==
    SentBy("Gemini") =>
        LET body == Unwrap(wire).body
            config == body.generationConfig
        IN  /\ DOMAIN body \subseteq {"contents", "systemInstruction", "generationConfig"}
            /\ "generationConfig" \in DOMAIN body
            /\ DOMAIN config \subseteq
                   {GeminiParameterNames[f] : f \in ParameterFields} \cup {"responseMimeType"}
            /\ \A f \in ParameterFields :
                   /\ GeminiParameterNames[f] \in DOMAIN config <=> IsSome(TheRequest[f])
                   /\ IsSome(TheRequest[f]) =>
                          config[GeminiParameterNames[f]] = Unwrap(TheRequest[f])
            /\ "responseMimeType" \in DOMAIN config <=> TheRequest.output_format = "Json"
            /\ TheRequest.output_format = "Json" =>
                   config.responseMimeType = "application/json"

\* A Text request with a temperature and a top_p and no token limit.
C21_Witness ==
    /\ SentBy("Gemini")
    /\ TheRequest.output_format = "Text"
    /\ TheRequest.max_tokens = None
    /\ IsSome(TheRequest.temperature) /\ IsSome(TheRequest.top_p)
    /\ DOMAIN Unwrap(wire).body.generationConfig = {"temperature", "topP"}

\* The texts of the parts of the entries of a contents array.
TextsOf(contents) ==
    {contents[k].parts[j].text : k \in 1..Len(contents), j \in {1}}

\* C22: the body the Gemini adapter sends has a systemInstruction exactly
\* when the request has a system_prompt, and it then holds one part whose
\* text is the prompt as given, in Json mode too; the contents array has one
\* one-part entry for each message that is no system message and its texts
\* are those messages' contents, so neither the prompt nor the content of a
\* system message is in it, and no system message is in systemInstruction.
C22_GeminiSystemInstruction ==
    SentBy("Gemini") =>
        LET body == Unwrap(wire).body
            messages == TheRequest.messages
        IN  /\ "systemInstruction" \in DOMAIN body <=> IsSome(TheRequest.system_prompt)
            /\ IsSome(TheRequest.system_prompt) =>
                   body.systemInstruction
                       = [parts |-> <<[text |-> Unwrap(TheRequest.system_prompt)]>>]
            /\ Len(body.contents) = Cardinality(NonSystem(messages))
            /\ \A k \in 1..Len(body.contents) : Len(body.contents[k].parts) = 1
            /\ TextsOf(body.contents) = {messages[i].content : i \in NonSystem(messages)}

\* A Json request with a system prompt, a system message and a user message
\* whose contents all differ.
C22_Witness ==
    /\ SentBy("Gemini")
    /\ TheRequest.output_format = "Json"
    /\ TheRequest.system_prompt = Some(<<"Be brief.">>)
    /\ TheRequest.messages = <<Message_system(<<"b">>), Message_user(<<"a">>)>>
    /\ TextsOf(Unwrap(wire).body.contents) = {<<"a">>}

\* C23: the body the OpenAI adapter sends has a response_format exactly when
\* the output format is Json, and it then is the JSON-mode marker, of type
\* "json_object"; its model is the request's model; and max_tokens,
\* temperature and top_p are each in it exactly when set on the request,
\* with the request's value.
C23_OpenAIOptionalFields ==
    SentBy("OpenAI") =>
        LET body == Unwrap(wire).body
        IN  /\ "response_format" \in DOMAIN body <=> TheRequest.output_format = "Json"
            /\ TheRequest.output_format = "Json" =>
                   body.response_format = [type |-> "json_object"]
            /\ body.model = TheRequest.model
            /\ \A f \in ParameterFields :
                   /\ f \in DOMAIN body <=> IsSome(TheRequest[f])
                   /\ IsSome(TheRequest[f]) => body[f] = Unwrap(TheRequest[f])

\* A Text request with a top_p and neither a token limit nor a temperature.
C23_Witness ==
    /\ SentBy("OpenAI")
    /\ TheRequest.output_format = "Text"
    /\ TheRequest.max_tokens = None /\ TheRequest.temperature = None
    /\ TheRequest.top_p = Some("0.9")
    /\ DOMAIN Unwrap(wire).body = {"model", "messages", "top_p"}

====
